---- MODULE Spec2Model ----
(***************************************************************************)
(* Model of peloton's NestedLoopJoinExecutor                                *)
(* (src/executor/nested_loop_join_executor.cpp).                            *)
(*                                                                          *)
(* The executor is a resumable state machine: each call to Old_DExecute     *)
(* (the materializing variant) or DExecute (the correlated index-probe      *)
(* variant) runs a for(;;) loop over buffered tiles.  The model steps       *)
(* through the blocks of that loop; `pc` is the position of the call.       *)
(*                                                                          *)
(* Rows are identified by their position in the child's row stream          *)
(* (1..Len); a tile is a sequence of row ids.  The value 0 of a column is   *)
(* the SQL NULL.  Row id 0 in an output pair is the null-row padding.       *)
(***************************************************************************)
EXTENDS Integers, Sequences, FiniteSets, TLC

\* ---------------------------------------------------------------- bounds
\* Rows a child, or the table behind the index scan, holds at most.
MaxRows == 2
\* Times the executor is initialized again after its first DInit().
MaxInits == 1

Vals == 0..2
KeyVals == 1..2
JoinTypes == {"inner", "left", "right", "outer"}

VARIABLES
  \* configuration of the run (fixed after construction)
  variant,        \* "old": Old_DExecute, "corr": DExecute
  joinType,       \* join_type_
  hasPredicate,   \* predicate_ != nullptr
  leftVal,        \* left child's rows: row id -> join column value
  leftCuts,       \* left child's batching: cut after these row ids
  rightVal,       \* right child's rows (table rows for an index scan)
  rightCuts,      \* right child's batching
  rightKind,      \* plan node type of children_[1]: "index" or "other"
  replaceOK,      \* what ReplaceKeyValue returns for the join column
  castEffect,     \* what ResetState() does to children_[1] in this build
  \* children
  lpos,           \* tiles the left child has produced so far
  rres,           \* right child: tiles of the scan in progress
  ritr,           \* right child: tiles of rres already returned
  rdone,          \* right child: scan started (lookup done) and not reset
  rbound,         \* right child: key value pushed by ReplaceKeyValue
  \* executor fields
  left_result_tiles_,
  right_result_tiles_,
  left_result_itr_,
  left_child_done_,
  right_child_done_,
  left_matched,       \* match bitsets of the buffered left tiles
  right_matched,      \* match bitsets of the buffered right tiles
  left_matching_idx,  \* emission cursor of the left outer completion
  right_matching_idx, \* emission cursor of the right outer completion
  \* the call in progress
  pc,
  advance_right_child,
  left_tile,
  rowPos,         \* DExecute: position of the row loop of line 273
  retval,         \* "none" | "true" | "false" | "crash"
  output,         \* the output tile set by SetOutput: seq of <<l, r>>
  \* history
  hist

cfgVars == <<variant, joinType, hasPredicate, leftVal, leftCuts, rightVal,
             rightCuts, rightKind, replaceOK, castEffect>>
childVars == <<lpos, rres, ritr, rdone, rbound>>
bufVars == <<left_result_tiles_, right_result_tiles_, left_matched,
             right_matched>>
flagVars == <<left_result_itr_, left_child_done_, right_child_done_>>
emitVars == <<left_matching_idx, right_matching_idx>>
callVars == <<pc, advance_right_child, left_tile, rowPos, retval, output>>
vars == <<cfgVars, childVars, bufVars, flagVars, emitVars, callVars, hist>>

\* ------------------------------------------------------------ child input

\* The tile (1-based) of the batching `cuts` that row id i falls in.
TileOf(cuts, i) == 1 + Cardinality({c \in cuts : c < i})

\* Number of tiles a child with n rows cut at `cuts` produces.
NumTiles(n, cuts) == IF n = 0 THEN 0 ELSE 1 + Cardinality(cuts)

Ids(n) == [i \in 1..n |-> i]

\* The k-th tile of a child: the row ids of that batch, in order.
ChildTile(n, cuts, k) == SelectSeq(Ids(n), LAMBDA i : TileOf(cuts, i) = k)

ChildTiles(n, cuts) == [k \in 1..NumTiles(n, cuts) |-> ChildTile(n, cuts, k)]

LeftTiles == ChildTiles(Len(leftVal), leftCuts)
RightTiles == ChildTiles(Len(rightVal), rightCuts)

\* Tiles an index scan bound to `key` returns: the rows with that key, batch
\* by batch; empty tiles are not returned.
IndexTiles(key) ==
  LET f == [k \in 1..Len(RightTiles) |->
              SelectSeq(RightTiles[k], LAMBDA i : rightVal[i] = key)]
  IN SelectSeq(f, LAMBDA t : t # <<>>)

\* ------------------------------------------------------- pairwise matcher

\* predicate_->Evaluate(left, right): equality of the join columns, under
\* SQL's three-valued logic.
Evaluate(l, r) ==
  IF leftVal[l] = 0 \/ rightVal[r] = 0 THEN "unknown"
  ELSE IF leftVal[l] = rightVal[r] THEN "true" ELSE "false"

\* eval.IsFalse()
IsFalse(v) == v = "false"

\* Mutant of Skipped: a pair is kept only when the predicate is true.
SkippedUnlessTrue(l, r) == hasPredicate /\ Evaluate(l, r) # "true"

\* The pair (l, r) is skipped by the inner loop (lines 178-190).
Skipped(l, r) == hasPredicate /\ IsFalse(Evaluate(l, r))

\* All row pairs of two tiles, right rows outer, left rows inner.
Cross(lt, rt) ==
  [k \in 1..(Len(lt) * Len(rt)) |->
     <<lt[((k - 1) % Len(lt)) + 1], rt[((k - 1) \div Len(lt)) + 1]>>]

\* pos_lists_builder after the two loops (lines 173-208).
PosLists(lt, rt) == SelectSeq(Cross(lt, rt), LAMBDA p : ~Skipped(p[1], p[2]))

\* Mutant of MatchedLeftRows: the call of RecordMatchedLeftRow is missing.
NoMatchedLeftRows(lt, rt) == {}

\* Rows recorded by RecordMatchedLeftRow / RecordMatchedRightRow.
MatchedLeftRows(lt, rt) == {p[1] : p \in {PosLists(lt, rt)[k] : k \in 1..Len(PosLists(lt, rt))}}
MatchedRightRows(lt, rt) == {p[2] : p \in {PosLists(lt, rt)[k] : k \in 1..Len(PosLists(lt, rt))}}


\* ------------------------------------------------------------- children

\* children_[0]->Execute(): true while the left child has another tile.
LeftExecute == lpos < Len(LeftTiles)

\* children_[0]->GetOutput() after a successful Execute.
LeftOutput == LeftTiles[lpos + 1]

\* children_[1]->Execute().  An index scan does its lookup for the bound
\* key on the first call after construction or ResetState, then hands out
\* the tiles of the result; once exhausted it stays exhausted until reset.
\* Any other child hands out its tiles once.
RightScan == IF rightKind = "index" /\ ~rdone THEN IndexTiles(rbound) ELSE rres
RightScanItr == IF rightKind = "index" /\ ~rdone THEN 0 ELSE ritr
RightExecute == RightScanItr < Len(RightScan)
RightOutput == RightScan[RightScanItr + 1]

\* The right child's state after one Execute call.
RightAfterExecute ==
  [res |-> RightScan,
   itr |-> IF RightExecute THEN RightScanItr + 1 ELSE RightScanItr,
   done |-> TRUE]

\* --------------------------------------------------- outer completion

Min(S) == CHOOSE x \in S : \A y \in S : x <= y

Unmatched(tile, bits) == SelectSeq(tile, LAMBDA i : i \notin bits)

\* Buffered tiles at or after the emission cursor that hold an unmatched row.
Pending(tiles, bits, idx) ==
  {k \in (idx + 1)..Len(tiles) : Unmatched(tiles[k], bits[k]) # <<>>}

PadRight(rows) == [k \in 1..Len(rows) |-> <<rows[k], 0>>]
PadLeft(rows) == [k \in 1..Len(rows) |-> <<0, rows[k]>>]

\* BuildLeftJoinOutput: the next buffered left tile with unmatched rows is
\* emitted, padded with the null right row; false when none is left.
BuildLeftJoinOutput(lt, lm, lidx) ==
  LET pend == Pending(lt, lm, lidx)
  IN IF pend = {}
       THEN [ret |-> FALSE, out |-> <<>>, lidx |-> IF lidx < Len(lt) THEN Len(lt) ELSE lidx]
       ELSE [ret |-> TRUE, out |-> PadRight(Unmatched(lt[Min(pend)], lm[Min(pend)])),
             lidx |-> Min(pend)]

\* BuildRightJoinOutput: symmetric, over the buffered right tiles.
BuildRightJoinOutput(rt, rm, ridx) ==
  LET pend == Pending(rt, rm, ridx)
  IN IF pend = {}
       THEN [ret |-> FALSE, out |-> <<>>, ridx |-> IF ridx < Len(rt) THEN Len(rt) ELSE ridx]
       ELSE [ret |-> TRUE, out |-> PadLeft(Unmatched(rt[Min(pend)], rm[Min(pend)])),
             ridx |-> Min(pend)]

\* BuildOuterJoinOutput on the buffers (lt, lm) and (rt, rm): what it
\* returns, the tile it outputs and the emission cursors it leaves.
BuildOuterJoinOutput(lt, lm, rt, rm) ==
  LET L == BuildLeftJoinOutput(lt, lm, left_matching_idx)
      R == BuildRightJoinOutput(rt, rm, right_matching_idx)
      keep == [ret |-> FALSE, out |-> <<>>,
               lidx |-> left_matching_idx, ridx |-> right_matching_idx]
  IN CASE joinType = "inner" -> keep
       [] joinType = "left" -> [keep EXCEPT !.ret = L.ret, !.out = L.out, !.lidx = L.lidx]
       [] joinType = "right" -> [keep EXCEPT !.ret = R.ret, !.out = R.out, !.ridx = R.ridx]
       [] OTHER ->
            IF L.ret
              THEN [keep EXCEPT !.ret = TRUE, !.out = L.out, !.lidx = L.lidx]
              ELSE [ret |-> R.ret, out |-> R.out, lidx |-> L.lidx, ridx |-> R.ridx]

\* ------------------------------------------------------ ends of a call

\* The history after a call has returned `ok` with the tile `out`.
Returned(h, ok, out) ==
  [h EXCEPT !.emitted = @ \o out,
            !.runEnd = IF @ < 0 /\ ~ok THEN Len(h.emitted) ELSE @]

\* return true, after SetOutput(out) (lines 211-215, 393-397).
ReturnTile(h, out) ==
  /\ pc' = "idle"
  /\ retval' = "true"
  /\ output' = out
  /\ hist' = Returned([h EXCEPT !.kind = "match"], TRUE, out)

\* return BuildOuterJoinOutput() on the given buffers.
ReturnOuter(h, lt, lm, rt, rm) ==
  LET b == BuildOuterJoinOutput(lt, lm, rt, rm)
  IN /\ pc' = "idle"
     /\ retval' = IF b.ret THEN "true" ELSE "false"
     /\ output' = b.out
     /\ left_matching_idx' = b.lidx
     /\ right_matching_idx' = b.ridx
     /\ hist' = Returned([h EXCEPT !.kind = IF b.ret THEN "outer" ELSE "exhausted"],
                         b.ret, b.out)

\* The process dies: a failed PL_ASSERT in a debug build, or a wild read.
Crash(h) ==
  /\ pc' = "idle"
  /\ retval' = "crash"
  /\ output' = <<>>
  /\ hist' = [h EXCEPT !.kind = "crash"]

\* What a failed check can do: abort the process, or (asserts compiled
\* out, or the wild read happening to succeed) let the call go on.
Outcomes(ok) == IF ok THEN {"go"} ELSE {"go", "crash"}


\* ------------------------------------------------------------------ Init

\* What ResetState() can do to children_[1]: an index scan forgets its
\* lookup; on any other executor the call goes through a wrong cast, and
\* what that does is up to the build: the process dies, the child is left as
\* it was, or its scan starts over.
ResetEffects(kind) == IF kind = "index" THEN {"reset"} ELSE {"reset", "none", "crash"}

SeqsUpTo(S, n) == UNION {[1..k -> S] : k \in 0..n}
Cuts(n) == SUBSET (1..(n - 1))

NoHistory ==
  [emitted |-> <<>>,   \* every output row of every call, in order
   runEnd |-> -1,      \* Len(emitted) when a call first returned false
   kind |-> "none",    \* how the last call ended
   pairings |-> <<>>,  \* <<left tile, right tile>> handed to the matcher
   joinedL |-> {},     \* <<left tile, row>> appended to a position list
   joinedR |-> {},     \* <<right tile, row>> appended to a position list
   probes |-> <<>>,    \* left rows whose key was pushed, in order
   lexec |-> 0,        \* calls of children_[0]->Execute()
   rexec |-> 0,        \* calls of children_[1]->Execute()
   resets |-> 0,       \* calls of ResetState()
   reported |-> FALSE,  \* the right child reported exhaustion, no reset since
   staleExec |-> FALSE, \* the right child was run while exhausted and not reset
   doneExec |-> FALSE,  \* the right child was run with right_child_done_ set
   doneEarly |-> FALSE, \* right_child_done_ was set with left rows remaining
   failed |-> {},      \* lines of the PL_ASSERTs and wild reads that failed
   inits |-> 0,        \* calls of DInit() after the first
   baseCleared |-> FALSE, \* the last DInit() found the buffers cleared
   start |->           \* snapshot taken when the last call began
     [bothDone |-> FALSE, lexec |-> 0, rexec |-> 0, pairings |-> 0,
      emitted |-> 0, probes |-> 0, resets |-> 0]]

\* The executor after construction and DInit (lines 34-56), on its inputs.
InitExecutor ==
  /\ lpos = 0
  /\ ritr = 0
  /\ rdone = FALSE
  /\ rbound = 0
  /\ left_result_tiles_ = <<>>
  /\ right_result_tiles_ = <<>>
  /\ left_result_itr_ = 0
  /\ left_child_done_ = FALSE
  /\ right_child_done_ = FALSE
  /\ left_matched = <<>>
  /\ right_matched = <<>>
  /\ left_matching_idx = 0
  /\ right_matching_idx = 0
  /\ pc = "idle"
  /\ advance_right_child = FALSE
  /\ left_tile = <<>>
  /\ rowPos = 0
  /\ retval = "none"
  /\ output = <<>>
  /\ hist = NoHistory

\* Old_DExecute over two plain children; the join column may hold NULLs.
InitOld ==
  /\ variant = "old"
  /\ joinType \in JoinTypes
  /\ hasPredicate \in BOOLEAN
  /\ leftVal \in SeqsUpTo(Vals, MaxRows)
  /\ leftCuts \in Cuts(Len(leftVal))
  /\ rightVal \in SeqsUpTo(Vals, MaxRows)
  /\ rightCuts \in Cuts(Len(rightVal))
  /\ rightKind = "other"
  /\ replaceOK = TRUE
  /\ castEffect = "reset"
  /\ rres = RightTiles
  /\ InitExecutor

\* DExecute: the predicate is an equality on the key column (line 281
\* dereferences predicate_), the right child an index scan or not.
InitCorr ==
  /\ variant = "corr"
  /\ joinType \in JoinTypes
  /\ hasPredicate = TRUE
  /\ leftVal \in SeqsUpTo(KeyVals, MaxRows)
  /\ leftCuts \in Cuts(Len(leftVal))
  /\ rightVal \in SeqsUpTo(KeyVals, MaxRows)
  /\ rightCuts \in Cuts(Len(rightVal))
  /\ rightKind \in {"index", "other"}
  /\ replaceOK \in IF rightKind = "index" THEN BOOLEAN ELSE {TRUE}
  /\ castEffect \in ResetEffects(rightKind)
  /\ rres = IF rightKind = "index" THEN <<>> ELSE RightTiles
  /\ InitExecutor

Init == InitOld \/ InitCorr

\* ------------------------------------------------------ executor helpers

\* BufferLeftTile / BufferRightTile: the tile is appended to the buffer and
\* gets a match bitset with no bit set.
BufferTile(tiles, t) == Append(tiles, t)
BufferBits(bits) == Append(bits, {})

\* RecordMatchedLeftRow / RecordMatchedRightRow for every row of `rows`,
\* under the 0-based tile index idx.
RecordMatched(bits, idx, rows) ==
  IF idx + 1 \in DOMAIN bits THEN [bits EXCEPT ![idx + 1] = @ \cup rows] ELSE bits

\* line 86 / line 228
BothDone == left_child_done_ /\ right_child_done_

\* Mutant of AdvancedCursor: the cursor is not set back to 0 at the wrap.
CursorNeverWraps == left_result_itr_ + 1

\* lines 104-109 / 246-251: the cursor after left_result_itr_++ and the wrap.
CursorWraps == left_result_itr_ + 1 >= Len(left_result_tiles_)
AdvancedCursor == IF CursorWraps THEN 0 ELSE left_result_itr_ + 1

\* Mutant of CursorAfterBuffer: the cursor is left on the first tile.
CursorStaysAtFront(tiles) == 0

\* line 126 / line 267: the cursor after a left tile was buffered.
CursorAfterBuffer(tiles) == Len(tiles) - 1

\* Mutant of RightEmptyAndDone: an empty right buffer is taken for the end of
\* the right input.
RightEmptyOnly == right_result_tiles_ = <<>>

\* line 132 / 303 / 335
RightEmptyAndDone == right_child_done_ /\ right_result_tiles_ = <<>>

\* Mutant of LeftRecordIdx: the match goes to the tile after the cursor.
LeftRecordNext == left_result_itr_ + 1

\* line 192 / 372: the index the left row's match is recorded under.
LeftRecordIdx == left_result_itr_

\* The buffered tiles that are the tile lt (tiles share no rows).
TilesEqual(tiles, lt) == {k \in DOMAIN tiles : tiles[k] = lt}

\* The history after the matcher appended the pairs pos of the left tile lt
\* and the last right tile to the position lists.
Joined(h, lt, pos) ==
  [h EXCEPT !.joinedL = @ \cup {<<k, pos[n][1]>> :
                                  k \in TilesEqual(left_result_tiles_, lt),
                                  n \in DOMAIN pos},
            !.joinedR = @ \cup {<<Len(right_result_tiles_), pos[n][2]>> :
                                  n \in DOMAIN pos}]

\* Mutant of RightRecordIdx: the match goes to the first right tile.
RightRecordFirst(tiles) == 0

\* line 204 / 386: the index the right row's match is recorded under.
RightRecordIdx(tiles) == Len(tiles) - 1

\* Mutant of HasJoinTuples: the tile is returned whatever its size.
HasJoinTuplesAlways(pos) == TRUE

\* line 211 / 393
HasJoinTuples(pos) == Len(pos) > 0

\* A caller's call enters the for(;;) loop.
Call ==
  /\ pc = "idle"
  /\ retval # "crash"
  /\ pc' = "top"
  /\ retval' = "none"
  /\ output' = <<>>
  /\ hist' = [hist EXCEPT !.start =
                [bothDone |-> BothDone, lexec |-> hist.lexec, rexec |-> hist.rexec,
                 pairings |-> Len(hist.pairings), emitted |-> Len(hist.emitted),
                 probes |-> Len(hist.probes), resets |-> hist.resets]]
  /\ UNCHANGED <<cfgVars, childVars, bufVars, flagVars, emitVars,
                 advance_right_child, left_tile, rowPos>>

\* ---------------------------------------------------------- Old_DExecute

\* lines 84-97: top of the loop.
OldTop ==
  /\ variant = "old"
  /\ pc = "top"
  /\ IF BothDone
       THEN /\ ReturnOuter(hist, left_result_tiles_, left_matched,
                           right_result_tiles_, right_matched)
            /\ UNCHANGED advance_right_child
       ELSE /\ pc' = "left"
            /\ advance_right_child' = FALSE
            /\ UNCHANGED <<retval, output, emitVars, hist>>
  /\ UNCHANGED <<cfgVars, childVars, bufVars, flagVars, left_tile, rowPos>>

\* lines 99-128: advance the cursor, or pull the left child.
OldPickLeft ==
  /\ variant = "old"
  /\ pc = "left"
  /\ IF left_child_done_
       THEN /\ \E o \in Outcomes(right_result_tiles_ # <<>>) :
              LET h == IF right_result_tiles_ # <<>> THEN hist
                       ELSE [hist EXCEPT !.failed = @ \cup {103}]
              IN IF o = "crash"
                   THEN /\ Crash(h)
                        /\ UNCHANGED <<left_result_itr_, advance_right_child>>
                   ELSE /\ left_result_itr_' = AdvancedCursor
                        /\ advance_right_child' = CursorWraps
                        /\ pc' = "right"
                        /\ hist' = h
                        /\ UNCHANGED <<retval, output>>
            /\ UNCHANGED <<lpos, left_child_done_, left_result_tiles_, left_matched>>
       ELSE /\ hist' = [hist EXCEPT !.lexec = @ + 1]
            /\ pc' = "right"
            /\ UNCHANGED <<retval, output>>
            /\ IF ~LeftExecute
                 THEN /\ left_child_done_' = TRUE
                      /\ left_result_itr_' = 0
                      /\ advance_right_child' = TRUE
                      /\ UNCHANGED <<lpos, left_result_tiles_, left_matched>>
                 ELSE /\ lpos' = lpos + 1
                      /\ left_result_tiles_' = BufferTile(left_result_tiles_, LeftOutput)
                      /\ left_matched' = BufferBits(left_matched)
                      /\ left_result_itr_' = CursorAfterBuffer(left_result_tiles_')
                      /\ UNCHANGED <<left_child_done_, advance_right_child>>
  /\ UNCHANGED <<cfgVars, rres, ritr, rdone, rbound, right_result_tiles_,
                 right_matched, right_child_done_, emitVars, left_tile, rowPos>>

\* lines 130-157: pull the right child when a new right tile is due.
OldAdvanceRight ==
  /\ variant = "old"
  /\ pc = "right"
  /\ IF ~(advance_right_child \/ right_result_tiles_ = <<>>)
       THEN /\ pc' = "pair"
            /\ UNCHANGED <<retval, output, emitVars, hist, rres, ritr, rdone,
                           right_result_tiles_, right_matched, right_child_done_>>
       ELSE IF RightEmptyAndDone
         THEN /\ ReturnOuter(hist, left_result_tiles_, left_matched,
                             right_result_tiles_, right_matched)
              /\ UNCHANGED <<rres, ritr, rdone, right_result_tiles_, right_matched,
                             right_child_done_>>
         ELSE \E o \in Outcomes(left_result_itr_ = 0) :
           LET h0 == IF left_result_itr_ = 0 THEN hist
                     ELSE [hist EXCEPT !.failed = @ \cup {136}]
               h == [h0 EXCEPT !.rexec = @ + 1]
               rt == BufferTile(right_result_tiles_, RightOutput)
               rm == BufferBits(right_matched)
           IN IF o = "crash"
                THEN /\ Crash(h0)
                     /\ UNCHANGED <<emitVars, rres, ritr, rdone, right_result_tiles_,
                                    right_matched, right_child_done_>>
                ELSE /\ rres' = RightAfterExecute.res
                     /\ ritr' = RightAfterExecute.itr
                     /\ rdone' = RightAfterExecute.done
                     /\ IF ~RightExecute
                          THEN /\ right_child_done_' = TRUE
                               /\ ReturnOuter(h, left_result_tiles_, left_matched,
                                              right_result_tiles_, right_matched)
                               /\ UNCHANGED <<right_result_tiles_, right_matched>>
                          ELSE /\ right_result_tiles_' = rt
                               /\ right_matched' = rm
                               /\ UNCHANGED right_child_done_
                               /\ IF left_child_done_ /\ left_result_tiles_ = <<>>
                                    THEN ReturnOuter(h, left_result_tiles_, left_matched,
                                                     rt, rm)
                                    ELSE /\ pc' = "pair"
                                         /\ hist' = h
                                         /\ UNCHANGED <<retval, output, emitVars>>
  /\ UNCHANGED <<cfgVars, lpos, rbound, left_result_tiles_, left_matched,
                 left_result_itr_, left_child_done_, advance_right_child,
                 left_tile, rowPos>>

\* lines 159-218: pair the tile at the cursor with the last right tile.
OldPair ==
  /\ variant = "old"
  /\ pc = "pair"
  /\ LET inside == left_result_itr_ < Len(left_result_tiles_)
                   /\ right_result_tiles_ # <<>>
     IN \E o \in Outcomes(inside) :
       LET lt == IF inside THEN left_result_tiles_[left_result_itr_ + 1] ELSE <<>>
           rt == IF inside THEN right_result_tiles_[Len(right_result_tiles_)] ELSE <<>>
           pos == PosLists(lt, rt)
           h0 == IF inside THEN hist ELSE [hist EXCEPT !.failed = @ \cup {160}]
           h == IF inside
                  THEN Joined([h0 EXCEPT !.pairings =
                                 Append(@, <<left_result_itr_ + 1,
                                             Len(right_result_tiles_)>>)],
                              lt, pos)
                  ELSE h0
       IN IF o = "crash"
            THEN /\ Crash(h0)
                 /\ UNCHANGED <<left_tile, left_matched, right_matched>>
            ELSE /\ left_tile' = lt
                 /\ left_matched' =
                      RecordMatched(left_matched, LeftRecordIdx, MatchedLeftRows(lt, rt))
                 /\ right_matched' =
                      RecordMatched(right_matched, RightRecordIdx(right_result_tiles_),
                                    MatchedRightRows(lt, rt))
                 /\ IF HasJoinTuples(pos)
                      THEN ReturnTile(h, pos)
                      ELSE /\ pc' = "top"
                           /\ hist' = h
                           /\ UNCHANGED <<retval, output>>
  /\ UNCHANGED <<cfgVars, childVars, left_result_tiles_, right_result_tiles_,
                 flagVars, emitVars, advance_right_child, rowPos>>

NextOld == Call \/ OldTop \/ OldPickLeft \/ OldAdvanceRight \/ OldPair

SpecOld == InitOld /\ [][NextOld]_vars


\* -------------------------------------------------------------- DExecute

\* lines 226-239: top of the loop.
DTop ==
  /\ variant = "corr"
  /\ pc = "top"
  /\ IF BothDone
       THEN /\ ReturnOuter(hist, left_result_tiles_, left_matched,
                           right_result_tiles_, right_matched)
            /\ UNCHANGED advance_right_child
       ELSE /\ pc' = "left"
            /\ advance_right_child' = FALSE
            /\ UNCHANGED <<retval, output, emitVars, hist>>
  /\ UNCHANGED <<cfgVars, childVars, bufVars, flagVars, left_tile, rowPos>>

\* lines 241-269: advance the cursor, or pull the left child.
DPickLeft ==
  /\ variant = "corr"
  /\ pc = "left"
  /\ IF left_child_done_
       THEN /\ \E o \in Outcomes(right_result_tiles_ # <<>>) :
              LET h == IF right_result_tiles_ # <<>> THEN hist
                       ELSE [hist EXCEPT !.failed = @ \cup {245}]
              IN IF o = "crash"
                   THEN /\ Crash(h)
                        /\ UNCHANGED <<left_result_itr_, advance_right_child>>
                   ELSE /\ left_result_itr_' = AdvancedCursor
                        /\ advance_right_child' = CursorWraps
                        /\ pc' = "tile"
                        /\ hist' = h
                        /\ UNCHANGED <<retval, output>>
            /\ UNCHANGED <<lpos, left_child_done_, left_result_tiles_, left_matched>>
       ELSE /\ hist' = [hist EXCEPT !.lexec = @ + 1]
            /\ pc' = "tile"
            /\ UNCHANGED <<retval, output>>
            /\ IF ~LeftExecute
                 THEN /\ left_child_done_' = TRUE
                      /\ left_result_itr_' = 0
                      /\ advance_right_child' = TRUE
                      /\ UNCHANGED <<lpos, left_result_tiles_, left_matched>>
                 ELSE /\ lpos' = lpos + 1
                      /\ left_result_tiles_' = BufferTile(left_result_tiles_, LeftOutput)
                      /\ left_matched' = BufferBits(left_matched)
                      /\ left_result_itr_' = CursorAfterBuffer(left_result_tiles_')
                      /\ UNCHANGED <<left_child_done_, advance_right_child>>
  /\ UNCHANGED <<cfgVars, rres, ritr, rdone, rbound, right_result_tiles_,
                 right_matched, right_child_done_, emitVars, left_tile, rowPos>>

\* line 271: left_tile = left_result_tiles_[left_result_itr_].get().  With
\* the cursor outside the buffer the read is wild: the process dies, or the
\* call goes on with a tile that shows no rows.
CursorInside == left_result_itr_ < Len(left_result_tiles_)

DSelectTile ==
  /\ variant = "corr"
  /\ pc = "tile"
  /\ \E o \in Outcomes(CursorInside) :
       LET h == IF CursorInside THEN hist ELSE [hist EXCEPT !.failed = @ \cup {271}]
       IN IF o = "crash"
            THEN /\ Crash(h)
                 /\ UNCHANGED <<left_tile, rowPos>>
            ELSE /\ left_tile' = IF CursorInside
                                   THEN left_result_tiles_[left_result_itr_ + 1]
                                   ELSE <<>>
                 /\ rowPos' = 0
                 /\ pc' = "row"
                 /\ hist' = h
                 /\ UNCHANGED <<retval, output>>
  /\ UNCHANGED <<cfgVars, childVars, bufVars, flagVars, emitVars,
                 advance_right_child>>

\* lines 287-288: the key is pushed only into an index scan.
PushesBound == rightKind = "index"

\* lines 290-297: the push was rejected.
PushRejected == PushesBound /\ ~replaceOK

\* return false of line 296.
ReturnFailure(h) ==
  /\ pc' = "idle"
  /\ retval' = "false"
  /\ output' = <<>>
  /\ hist' = Returned([h EXCEPT !.kind = "failure"], FALSE, <<>>)

\* lines 273-307: the next row of the left tile: its key is pushed into the
\* right child, which is then drained (DDrain); after the last row the loop
\* goes on at line 333.
DProbeRow ==
  /\ variant = "corr"
  /\ pc = "row"
  /\ IF rowPos >= Len(left_tile)
       THEN /\ pc' = "after"
            /\ UNCHANGED <<retval, output, emitVars, hist, rbound>>
       ELSE IF PushRejected
         THEN /\ ReturnFailure(hist)
              /\ UNCHANGED <<emitVars, rbound>>
         ELSE /\ rbound' = IF PushesBound THEN leftVal[left_tile[rowPos + 1]] ELSE rbound
              /\ IF RightEmptyAndDone
                   THEN ReturnOuter(hist, left_result_tiles_, left_matched,
                                    right_result_tiles_, right_matched)
                   ELSE \E o \in Outcomes(left_result_itr_ = 0) :
                     LET h == IF left_result_itr_ = 0 THEN hist
                              ELSE [hist EXCEPT !.failed = @ \cup {307}]
                     IN IF o = "crash"
                          THEN /\ Crash(h)
                               /\ UNCHANGED emitVars
                          ELSE /\ pc' = "drain"
                               /\ hist' = [h EXCEPT !.probes =
                                             Append(@, left_tile[rowPos + 1])]
                               /\ UNCHANGED <<retval, output, emitVars>>
  /\ UNCHANGED <<cfgVars, lpos, rres, ritr, rdone, bufVars, flagVars,
                 advance_right_child, left_tile, rowPos>>

\* line 322: the right child is reset while the left child is not done.
ResetsRight == ~left_child_done_


\* line 273: the row loop has rows of left_tile left after the one at rowPos.
MoreLeftRows == rowPos + 1 < Len(left_tile)

\* lines 310-330: one Execute of the right child inside the drain loop.
DDrain ==
  /\ variant = "corr"
  /\ pc = "drain"
  /\ LET h == [hist EXCEPT !.rexec = @ + 1,
                           !.reported = ~RightExecute,
                           !.staleExec = @ \/ hist.reported,
                           !.doneExec = @ \/ right_child_done_,
                           !.doneEarly = @ \/ (~RightExecute /\ ~ResetsRight /\ MoreLeftRows)]
         rt == BufferTile(right_result_tiles_, RightOutput)
         rm == BufferBits(right_matched)
     IN IF RightExecute
          THEN /\ rres' = RightAfterExecute.res
               /\ ritr' = RightAfterExecute.itr
               /\ rdone' = RightAfterExecute.done
               /\ right_result_tiles_' = rt
               /\ right_matched' = rm
               /\ UNCHANGED <<right_child_done_, rowPos>>
               /\ IF left_child_done_ /\ left_result_tiles_ = <<>>
                    THEN ReturnOuter(h, left_result_tiles_, left_matched, rt, rm)
                    ELSE /\ pc' = "drain"
                         /\ hist' = h
                         /\ UNCHANGED <<retval, output, emitVars>>
          ELSE /\ UNCHANGED <<right_result_tiles_, right_matched, emitVars>>
               /\ IF ResetsRight
                    THEN LET e == castEffect IN
                           /\ UNCHANGED right_child_done_
                           /\ IF e = "crash"
                                THEN /\ Crash([h EXCEPT !.failed = @ \cup {324}])
                                     /\ UNCHANGED <<rres, ritr, rdone, rowPos>>
                                ELSE /\ rres' = IF e = "reset" /\ rightKind = "index"
                                                  THEN <<>> ELSE RightAfterExecute.res
                                     /\ ritr' = IF e = "reset" THEN 0 ELSE RightAfterExecute.itr
                                     /\ rdone' = IF e = "reset" THEN FALSE ELSE TRUE
                                     /\ rowPos' = rowPos + 1
                                     /\ pc' = "row"
                                     /\ hist' = [h EXCEPT !.resets = @ + 1,
                                                          !.reported = IF e = "reset" THEN FALSE ELSE @,
                                                          !.failed = IF rightKind = "index" THEN @
                                                                     ELSE @ \cup {324}]
                                     /\ UNCHANGED <<retval, output>>
                    ELSE /\ right_child_done_' = TRUE
                         /\ rres' = RightAfterExecute.res
                         /\ ritr' = RightAfterExecute.itr
                         /\ rdone' = RightAfterExecute.done
                         /\ rowPos' = rowPos + 1
                         /\ pc' = "row"
                         /\ hist' = h
                         /\ UNCHANGED <<retval, output>>
  /\ UNCHANGED <<cfgVars, lpos, rbound, left_result_tiles_, left_matched,
                 left_result_itr_, left_child_done_, advance_right_child, left_tile>>

\* lines 333-340: the checks before the right tile is taken.
DAfterRows ==
  /\ variant = "corr"
  /\ pc = "after"
  /\ IF ~(advance_right_child \/ right_result_tiles_ = <<>>)
       THEN /\ pc' = "pair"
            /\ UNCHANGED <<retval, output, emitVars, hist>>
       ELSE IF RightEmptyAndDone
         THEN ReturnOuter(hist, left_result_tiles_, left_matched,
                          right_result_tiles_, right_matched)
         ELSE \E o \in Outcomes(left_result_itr_ = 0) :
           LET h == IF left_result_itr_ = 0 THEN hist
                    ELSE [hist EXCEPT !.failed = @ \cup {339}]
           IN IF o = "crash"
                THEN /\ Crash(h)
                     /\ UNCHANGED emitVars
                ELSE /\ pc' = "pair"
                     /\ hist' = h
                     /\ UNCHANGED <<retval, output, emitVars>>
  /\ UNCHANGED <<cfgVars, childVars, bufVars, flagVars, advance_right_child,
                 left_tile, rowPos>>

\* lines 342-400: right_tile = right_result_tiles_.back().get() (a wild read
\* when the buffer is empty), and the pairing of left_tile with it.
DPair ==
  /\ variant = "corr"
  /\ pc = "pair"
  /\ LET inside == right_result_tiles_ # <<>>
     IN \E o \in Outcomes(inside) :
       LET lt == left_tile
           rt == IF inside THEN right_result_tiles_[Len(right_result_tiles_)] ELSE <<>>
           pos == PosLists(lt, rt)
           h0 == IF inside THEN hist ELSE [hist EXCEPT !.failed = @ \cup {342}]
           h == IF inside
                  THEN Joined([h0 EXCEPT !.pairings =
                                 Append(@, <<left_result_itr_ + 1,
                                             Len(right_result_tiles_)>>)],
                              lt, pos)
                  ELSE h0
       IN IF o = "crash"
            THEN /\ Crash(h0)
                 /\ UNCHANGED <<left_matched, right_matched>>
            ELSE /\ left_matched' =
                      RecordMatched(left_matched, LeftRecordIdx, MatchedLeftRows(lt, rt))
                 /\ right_matched' =
                      RecordMatched(right_matched, RightRecordIdx(right_result_tiles_),
                                    MatchedRightRows(lt, rt))
                 /\ IF HasJoinTuples(pos)
                      THEN ReturnTile(h, pos)
                      ELSE /\ pc' = "top"
                           /\ hist' = h
                           /\ UNCHANGED <<retval, output>>
  /\ UNCHANGED <<cfgVars, childVars, left_result_tiles_, right_result_tiles_,
                 flagVars, emitVars, advance_right_child, left_tile, rowPos>>

NextCorr == Call \/ DTop \/ DPickLeft \/ DSelectTile \/ DProbeRow \/ DDrain
            \/ DAfterRows \/ DPair

SpecCorr == InitCorr /\ [][NextCorr]_vars

Next == NextOld \/ NextCorr

Spec == Init /\ [][Next]_vars

\* ---------------------------------------------------- re-initialization

\* AbstractJoinExecutor::DInit() (line 44): whether it empties the buffers
\* and the match bitsets, as a re-initialization is required to, or leaves
\* them as they are.
BaseDInitClears == BOOLEAN

\* lines 43-56: DInit() on the executor between two calls.  right_result_itr_
\* (line 50) is read by neither Old_DExecute nor DExecute and is left out.
DInit ==
  /\ pc = "idle"
  /\ retval # "crash"
  /\ hist.inits < MaxInits
  /\ \E clears \in BaseDInitClears :
       LET lt == IF clears THEN <<>> ELSE left_result_tiles_
           rt == IF clears THEN <<>> ELSE right_result_tiles_
           h0 == [hist EXCEPT !.inits = @ + 1, !.baseCleared = clears]
           h1 == IF rt = <<>> THEN h0 ELSE [h0 EXCEPT !.failed = @ \cup {48}]
           h2 == IF lt = <<>> THEN h1 ELSE [h1 EXCEPT !.failed = @ \cup {53}]
       IN /\ left_result_tiles_' = lt
          /\ right_result_tiles_' = rt
          /\ left_matched' = IF clears THEN <<>> ELSE left_matched
          /\ right_matched' = IF clears THEN <<>> ELSE right_matched
          /\ \E o1 \in Outcomes(rt = <<>>) :
               IF o1 = "crash"
                 THEN /\ Crash(h1)
                      /\ UNCHANGED right_child_done_
                 ELSE /\ right_child_done_' = FALSE
                      /\ \E o2 \in Outcomes(lt = <<>>) :
                           IF o2 = "crash"
                             THEN Crash(h2)
                             ELSE /\ pc' = "idle"
                                  /\ retval' = "true"
                                  /\ output' = <<>>
                                  /\ hist' = [h2 EXCEPT !.kind = "init"]
  /\ UNCHANGED <<cfgVars, childVars, left_result_itr_, left_child_done_,
                 emitVars, advance_right_child, left_tile, rowPos>>

NextReinit == Next \/ DInit

\* The executor when its caller may initialize it again between calls.
SpecReinit == Init /\ [][NextReinit]_vars


\* ================================================================ claims

LeftIds == 1..Len(leftVal)
RightIds == 1..Len(rightVal)

\* The run as its caller sees it: the calls up to the first one that
\* returned false.
RunOver == pc = "idle" /\ hist.runEnd >= 0
RunOut == IF hist.runEnd < 0 THEN hist.emitted ELSE SubSeq(hist.emitted, 1, hist.runEnd)

Count(seq, x) == Cardinality({k \in DOMAIN seq : seq[k] = x})

\* The join condition of rows l and r, read off the inputs.
HoldsTrue(l, r) == hasPredicate /\ Evaluate(l, r) = "true"
NotFalse(l, r) == hasPredicate => Evaluate(l, r) # "false"

\* C1: a call that returns true has set an output tile with at least one
\* row, whether the tile comes from a pairing or from outer completion; a
\* call that returns false or dies has set none.
C1_NoEmptySuccess ==
  pc = "idle" =>
    /\ retval = "true" => (Len(output) > 0 /\ hist.kind \in {"match", "outer"})
    /\ retval = "false" => (output = <<>> /\ hist.kind \in {"exhausted", "failure"})
    /\ retval = "crash" => (output = <<>> /\ hist.kind = "crash")

\* A pairing whose position lists stayed empty went back to the top of the
\* loop, and the call returned a tile from a later pairing.
C1_Witness ==
  /\ pc = "idle"
  /\ retval = "true"
  /\ hist.kind = "match"
  /\ Len(hist.pairings) - hist.start.pairings >= 2

\* C2 as stated: the inner join of Old_DExecute outputs exactly the pairs
\* on which the predicate holds true.
C2_TruePairsOnly ==
  (variant = "old" /\ joinType = "inner" /\ hasPredicate /\ RunOver) =>
    \A l \in LeftIds, r \in RightIds :
      Count(RunOut, <<l, r>>) = IF HoldsTrue(l, r) THEN 1 ELSE 0

\* C2, amended: the inner join of Old_DExecute outputs, once each, exactly
\* the pairs on which the predicate does not evaluate to false (true or
\* unknown; every pair when there is no predicate), whatever the batching.
C2_InnerJoinOutput ==
  (variant = "old" /\ joinType = "inner" /\ RunOver) =>
    /\ \A l \in LeftIds, r \in RightIds :
         Count(RunOut, <<l, r>>) = IF NotFalse(l, r) THEN 1 ELSE 0
    /\ \A k \in DOMAIN RunOut : RunOut[k][1] \in LeftIds /\ RunOut[k][2] \in RightIds

\* A finished inner join over two left and two right tiles, with a pair the
\* predicate rejects, one it accepts and one it cannot decide.
C2_Witness ==
  /\ variant = "old" /\ joinType = "inner" /\ hasPredicate /\ RunOver
  /\ Len(LeftTiles) = 2 /\ Len(RightTiles) = 2
  /\ \E l \in LeftIds, r \in RightIds : Evaluate(l, r) = "false"
  /\ \E l \in LeftIds, r \in RightIds : Evaluate(l, r) = "true"
  /\ \E l \in LeftIds, r \in RightIds :
       Evaluate(l, r) = "unknown" /\ Count(RunOut, <<l, r>>) = 1

\* The k-th pairing of a run over nl left tiles: right tiles in arrival
\* order, and under each right tile the left tiles in cursor order.
ExpectedPairing(k, nl) == <<((k - 1) % nl) + 1, ((k - 1) \div nl) + 1>>

\* C3: Old_DExecute hands the tile pairs to the matcher in the order (1,1),
\* (2,1), .., (n,1), (1,2), .., each once; a right tile is pulled only after
\* the previous one met every left tile; with both children exhausted every
\* pair of tiles has been matched.
C3_EveryPairOnce ==
  variant = "old" =>
    /\ \A k \in DOMAIN hist.pairings :
         hist.pairings[k] = ExpectedPairing(k, Len(LeftTiles))
    /\ Len(right_result_tiles_) >= 2 =>
         Len(hist.pairings) >= Len(LeftTiles) * (Len(right_result_tiles_) - 1)
    /\ BothDone => Len(hist.pairings) = Len(LeftTiles) * Len(RightTiles)

C3_Witness ==
  /\ variant = "old" /\ BothDone
  /\ Len(LeftTiles) = 2 /\ Len(RightTiles) = 2
  /\ Len(hist.pairings) = 4

\* A left row has a match when some right row makes the matcher append it.
LeftHasMatch(l) == \E r \in RightIds : NotFalse(l, r)
RightHasMatch(r) == \E l \in LeftIds : NotFalse(l, r)

CallOut == SubSeq(hist.emitted, hist.start.emitted + 1, Len(hist.emitted))
EarlierOut == SubSeq(hist.emitted, 1, hist.start.emitted)

\* A call that began with both flags set ran neither child, pushed no key
\* and paired no tiles.
StraightToCompletion ==
  /\ pc \in {"idle", "top"}
  /\ hist.lexec = hist.start.lexec
  /\ hist.rexec = hist.start.rexec
  /\ hist.resets = hist.start.resets
  /\ Len(hist.probes) = hist.start.probes
  /\ Len(hist.pairings) = hist.start.pairings
  /\ pc = "idle" => hist.kind \in {"outer", "exhausted"}

\* C6: a call that starts with left_child_done_ and right_child_done_ set
\* goes straight to outer completion, and the rows it returns were output by
\* no earlier call (in runs where no PL_ASSERT failed and no read went
\* outside a buffer).
C6_ExhaustionDeterminism ==
  (hist.failed = {} /\ hist.start.bothDone /\ (pc # "idle" \/ retval # "none")) =>
    /\ StraightToCompletion
    /\ pc = "idle" => \A k \in DOMAIN CallOut : Count(EarlierOut, CallOut[k]) = 0


\* A run of DExecute over an index scan that accepts the pushed keys, in
\* which no PL_ASSERT failed and no read went outside a buffer.
CleanProbeRun ==
  variant = "corr" /\ rightKind = "index" /\ replaceOK /\ hist.failed = {}

\* The rows the index scan returns when bound to the key of left row l.
ProbeResult(l) == {r \in RightIds : rightVal[r] = leftVal[l]}

\* C7: DExecute's matched output over the run is the union, over the left
\* rows, of the row joined with the rows its own probe returns: every such
\* pair is output, and no other pair.
C7_ProbeJoin ==
  (CleanProbeRun /\ RunOver) =>
    \A l \in LeftIds, r \in RightIds :
      Count(RunOut, <<l, r>>) > 0 <=> r \in ProbeResult(l)

\* C8: in DExecute each left row's key is pushed once, and no matched pair
\* is output twice.
C8_OneLookupPerRow ==
  CleanProbeRun =>
    /\ \A l \in LeftIds : Count(hist.probes, l) <= 1
    /\ \A l \in LeftIds, r \in RightIds : Count(hist.emitted, <<l, r>>) <= 1

\* C9: in DExecute right_child_done_ is set only when no left row remains
\* to be probed, so the right child is never run while exhausted and not
\* reset, and never run with right_child_done_ set.
C9_ResetOrDone ==
  CleanProbeRun =>
    /\ ~hist.doneEarly
    /\ ~hist.staleExec
    /\ ~hist.doneExec

\* C10: when the right child of DExecute takes no pushed bound, or rejects
\* the push, the right child is neither run nor reset and no call returns
\* an output tile.
C10_UnsupportedPushFails ==
  (variant = "corr" /\ (rightKind # "index" \/ ~replaceOK)) =>
    /\ pc # "drain"
    /\ hist.rexec = 0
    /\ hist.resets = 0
    /\ hist.emitted = <<>>

\* What a caller gets from a call: the bool it returned and the tile it set.
CallResult == <<retval, output>>

\* The result of every call that ended because there is no more output:
\* BuildOuterJoinOutput() returned false and set no tile.
ExhaustionResult == <<"false", <<>>>>

\* C11: a call of DExecute that aborted because the right child rejected the
\* pushed bound (line 296) gives its caller a result that differs from the
\* result of a call that found no more output.
C11_FailureDistinct ==
  (pc = "idle" /\ hist.kind = "failure") => CallResult # ExhaustionResult

\* An inner join of a non-empty left input with an empty right input.
EmptyRightInner == joinType = "inner" /\ leftVal # <<>> /\ rightVal = <<>>

\* C12: in an inner join with a non-empty left and an empty right input
\* (for DExecute: an index scan that takes every pushed key and finds no
\* row) no row is output, the first call in which the right child was run
\* returns false, and no right tile is taken for a pairing: neither a
\* buffered one nor, with the right buffer empty, whatever lies outside it.
C12_EmptyRightExhausts ==
  (EmptyRightInner /\ (variant = "corr" => rightKind = "index" /\ replaceOK)) =>
    /\ hist.emitted = <<>>
    /\ hist.pairings = <<>>
    /\ hist.failed \cap {160, 342} = {}
    /\ (pc = "idle" /\ hist.rexec > 0) => retval = "false"

\* C13: at the end of every call the cursor left_result_itr_ is inside a
\* non-empty left buffer, and wherever the cursor selects the left tile
\* (line 160 of Old_DExecute, line 271 of DExecute) it is inside the buffer.
C13_CursorInBuffer ==
  /\ (pc = "idle" /\ left_result_tiles_ # <<>>) =>
       (0 <= left_result_itr_ /\ left_result_itr_ < Len(left_result_tiles_))
  /\ (variant = "old" /\ pc = "pair") => CursorInside
  /\ (variant = "corr" /\ pc = "tile") => CursorInside

\* The right child of DExecute is what the code expects: an index scan that
\* takes every pushed key.
ProbeableRight == variant = "corr" => (rightKind = "index" /\ replaceOK)

\* C14: once left_child_done_ (right_child_done_) is set no step clears it,
\* and no step calls Execute() of the left (right) child.
C14_DonePermanent ==
  [][ProbeableRight =>
       /\ left_child_done_ => (left_child_done_' /\ hist'.lexec = hist.lexec)
       /\ right_child_done_ => (right_child_done_' /\ hist'.rexec = hist.rexec)]_vars

\* The bits set in the match bitsets, as <<tile, row>>.
Tracked(bits) == UNION {{<<k, i>> : i \in bits[k]} : k \in DOMAIN bits}

\* C15: the bits set in the left (right) match bitsets are those of the
\* rows of the buffered left (right) tiles that a pairing appended to a
\* position list, each under the index of the tile it was read from; every
\* buffered tile has its bitset.
C15_TrackerMatchesPairings ==
  /\ DOMAIN left_matched = DOMAIN left_result_tiles_
  /\ DOMAIN right_matched = DOMAIN right_result_tiles_
  /\ Tracked(left_matched) = hist.joinedL
  /\ Tracked(right_matched) = hist.joinedR

\* Two left and two right tiles are buffered; rows of the second left and
\* of the second right tile were joined, and some buffered left row was
\* joined with nothing.
C15_Witness ==
  /\ pc = "idle"
  /\ Len(left_result_tiles_) = 2 /\ Len(right_result_tiles_) = 2
  /\ \E l \in LeftIds : <<2, l>> \in Tracked(left_matched)
  /\ \E r \in RightIds : <<2, r>> \in Tracked(right_matched)
  /\ \E k \in DOMAIN left_result_tiles_ :
       \E n \in DOMAIN left_result_tiles_[k] :
         <<k, left_result_tiles_[k][n]>> \notin Tracked(left_matched)

\* The states in which outer completion may run: both children exhausted,
\* or one child exhausted with nothing buffered from it.
CompletionDue ==
  \/ BothDone
  \/ right_child_done_ /\ right_result_tiles_ = <<>>
  \/ left_child_done_ /\ left_result_tiles_ = <<>>

\* Output row j pads a row that output row k joins with a row of the other
\* side.
PaddedThenJoined(j, k) ==
  LET p == hist.emitted[j]
      q == hist.emitted[k]
  IN \/ p[2] = 0 /\ q[1] = p[1] /\ q[2] # 0
     \/ p[1] = 0 /\ q[2] = p[2] /\ q[1] # 0

\* C16: a call that ended in BuildOuterJoinOutput() did so with both
\* children exhausted, or with one child exhausted and its buffer empty; and
\* no row output as unmatched is output joined by a later pairing.
C16_CompletionIsFinal ==
  /\ (pc = "idle" /\ hist.kind \in {"outer", "exhausted"}) => CompletionDue
  /\ \A j, k \in DOMAIN hist.emitted : j < k => ~PaddedThenJoined(j, k)

\* Outer completion, with both children exhausted, returned padded rows
\* after earlier calls had returned joined pairs.
C16_Witness ==
  /\ pc = "idle" /\ hist.kind = "outer" /\ BothDone
  /\ \E k \in DOMAIN CallOut : CallOut[k][1] = 0 \/ CallOut[k][2] = 0
  /\ \E j \in DOMAIN EarlierOut : EarlierOut[j][1] # 0 /\ EarlierOut[j][2] # 0

\* The executor keeps running: a call that has begun takes its next step,
\* and the caller calls again after every call that returned.
SpecLive == Spec /\ WF_vars(Next)

\* C17: every run ends: some call returns false, unless the process dies
\* at a failed check before that.
C17_RunTerminates == <>(pc = "idle" /\ retval \in {"false", "crash"})

\* The fields of the executor as InitExecutor leaves them.
FreshExecutor ==
  /\ left_result_tiles_ = <<>> /\ right_result_tiles_ = <<>>
  /\ left_matched = <<>> /\ right_matched = <<>>
  /\ ~left_child_done_ /\ ~right_child_done_
  /\ left_result_itr_ = 0

\* C18: DInit() on an executor that has run fails neither of its checks and
\* returns true, and leaves the buffers and bitsets empty, both flags false
\* and the cursor at 0.
C18_ReinitIsFresh ==
  /\ hist.failed \cap {48, 53} = {}
  /\ (pc = "idle" /\ hist.kind = "init") => (retval = "true" /\ FreshExecutor)

\* Old_DExecute is about to pull the right child (line 139).
OldPullsRight ==
  /\ variant = "old" /\ pc = "right"
  /\ advance_right_child \/ right_result_tiles_ = <<>>
  /\ ~RightEmptyAndDone

\* C19: in Old_DExecute the check of line 103 holds (the right buffer is
\* not empty when an iteration starts with left_child_done_ set) and so does
\* the check of line 136 (the cursor is 0 when the right child is about to
\* be pulled).
C19_OldChecksHold ==
  /\ variant = "old" => hist.failed \cap {103, 136} = {}
  /\ (variant = "old" /\ pc = "left" /\ left_child_done_) => right_result_tiles_ # <<>>
  /\ OldPullsRight => left_result_itr_ = 0

\* The exhausted left side of two tiles has wrapped, and the next right tile
\* is about to be pulled after the first one.
C19_Witness ==
  /\ OldPullsRight
  /\ left_child_done_ /\ advance_right_child
  /\ Len(left_result_tiles_) = 2
  /\ right_result_tiles_ # <<>>

\* C20: in DExecute over an index scan that takes every pushed key, as long
\* as the cursor was inside the left buffer at every line 271, the checks
\* hold: the right buffer is not empty at line 245, left_result_itr_ is 0
\* at line 307, and the right buffer is not empty when line 342 takes its
\* last tile.
C20_ProbeChecksHold ==
  (variant = "corr" /\ rightKind = "index" /\ replaceOK /\ 271 \notin hist.failed) =>
    hist.failed \cap {245, 307, 342} = {}

====
